---- MODULE Spec2Model ----
(***************************************************************************)
(* Model of bisslog_fastapi's TriggerHttpProcessor.__call__: the generator *)
(* of one FastAPI route handler (signature, body, import requirements)     *)
(* from an HTTP trigger description, and of the handler body it emits.     *)
(*                                                                         *)
(* Text is modelled structurally.  A mapper key "section.field" is the     *)
(* tuple <<section, field>>, a bare key "section" is <<section>>.  A       *)
(* signature parameter string is a record of its parts plus `tail`, which  *)
(* says whether the string ends in the literal ",  " that several of the   *)
(* f-strings carry.  A generated line is a record with a `kind`.           *)
(***************************************************************************)
EXTENDS Naturals, Sequences, FiniteSets, TLC

VARIABLES
    mapper,                 \* trigger_info.mapper, as the dict's insertion-ordered items
    path,                   \* trigger_info.path, as a sequence of segments (<<>> = missing)
    is_coroutine,           \* uc_info.is_coroutine
    use_case_description,   \* the optional description ("None" when absent)
    callable_obj,           \* the use case callable: its annotations
    imports,                \* dict[str, set[str]]
    sig_params,             \* list[str] of parameter declarations
    uc_arg_names,           \* list[tuple[str, str]]
    lines,                  \* list[str] of generated lines
    todo,                   \* what the running for-loop still has to iterate
    pc,                     \* position in __call__ / in the generated handler
    request,                \* the request the generated handler is called with
    kwargs                  \* the handler's _kwargs collector after it ran

vars == <<mapper, path, is_coroutine, use_case_description, callable_obj, imports,
          sig_params, uc_arg_names, lines, todo, pc, request, kwargs>>

None == "None"

-----------------------------------------------------------------------------
(* Bounds and input universes *)

\* A trigger holds at most this many mapper entries plus path segments.
MaxFields == 2

\* Identifier strings, in ascending (Python str) order.
Lexicon == <<"a", "b", "body">>

Names == {"a", "b"}
PlaceholderNames == {"a", "body"}
Sections == {"path_query", "body", "params", "headers"}
AggregateSections == {"body", "params", "headers"}

\* "body" < "headers" < "params" < "path_query" as Python strings.
SectionOrder == <<"body", "headers", "params", "path_query">>

Keys == {<<s, f>> : s \in Sections, f \in Names} \cup {<<s>> : s \in AggregateSections}

Entries == Keys \X Names

\* A path segment: a well-formed placeholder "{name}", or text the pattern
\* does not match (literal text, malformed braces).
Segments == {[kind |-> "var", name |-> n] : n \in PlaceholderNames} \cup {[kind |-> "lit"]}

SeqsUpTo(S, n) == UNION {[1..k -> S] : k \in 0..n}

\* dict items: pairwise distinct keys, any insertion order.
Mappers == {m \in SeqsUpTo(Entries, MaxFields) :
                \A i, j \in 1..Len(m) : i # j => m[i][1] # m[j][1]}

\* The use case callables compiled: parameter annotations and return annotation.
Callables == {
    [params  |-> ("a" :> "List[Item]" @@ "b" :> None @@ "body" :> None),
     returns |-> "Result"],
    [params  |-> ("a" :> None @@ "b" :> "int" @@ "body" :> "Item"),
     returns |-> None] }

-----------------------------------------------------------------------------
(* Collaborators and helpers *)

\* get_param_type(callable_obj, name): the declared type, or None.
GetParamType(c, name) == c.params[name]

\* infer_response_model(callable_obj): the return type, or None.
InferResponseModel(c) == c.returns

\* type_to_str_and_imports(ann): source text and the module -> names it needs.
TypeToStrAndImports(ann) ==
    CASE ann = "str"        -> [str |-> "str", imports |-> <<>>]
      [] ann = "int"        -> [str |-> "int", imports |-> <<>>]
      [] ann = "Item"       -> [str |-> "Item", imports |-> ("models" :> {"Item"})]
      [] ann = "Result"     -> [str |-> "Result", imports |-> ("models" :> {"Result"})]
      [] ann = "List[Item]" -> [str |-> "List[Item]",
                                imports |-> ("typing" :> {"List"} @@ "models" :> {"Item"})]

\* imports.setdefault(mod, set()).update(names)
AddNames(imp, mod, names) ==
    [m \in DOMAIN imp \cup {mod} |->
        (IF m \in DOMAIN imp THEN imp[m] ELSE {}) \cup (IF m = mod THEN names ELSE {})]

\* for mod, names in extra.items(): imports.setdefault(mod, set()).update(names)
MergeImports(imp, extra) ==
    [m \in DOMAIN imp \cup DOMAIN extra |->
        (IF m \in DOMAIN imp THEN imp[m] ELSE {}) \cup
        (IF m \in DOMAIN extra THEN extra[m] ELSE {})]

IndexOf(seq, x) == CHOOSE i \in 1..Len(seq) : seq[i] = x

\* Python's < on identifier strings.
StrLess(x, y) == IndexOf(Lexicon, x) < IndexOf(Lexicon, y)

\* Python's < on key strings "section" / "section.field": a bare key is a
\* proper prefix of its dotted keys, and "." sorts below every letter.
KeyLess(k1, k2) ==
    IF k1[1] # k2[1] THEN IndexOf(SectionOrder, k1[1]) < IndexOf(SectionOrder, k2[1])
    ELSE IF Len(k1) = 1 THEN Len(k2) = 2
    ELSE Len(k2) = 2 /\ StrLess(k1[2], k2[2])

\* Python's < on (key, value) tuples.
ItemLess(e1, e2) ==
    KeyLess(e1[1], e2[1]) \/ (e1[1] = e2[1] /\ StrLess(e1[2], e2[2]))

\* k.startswith("section.")
StartsWith(k, section) == Len(k) = 2 /\ k[1] = section

\* source_key.split(".", 1)[1]
FieldOf(k) == k[2]

\* "section" in mapper
HasKey(m, section) == \E i \in 1..Len(m) : m[i][1] = <<section>>

\* mapper["section"]
Lookup(m, section) == m[CHOOSE i \in 1..Len(m) : m[i][1] = <<section>>][2]

\* (k, v) for k, v in mapper.items() if k.startswith("section.")
Items(m, section) == SelectSeq(m, LAMBDA e : StartsWith(e[1], section))

UnsortedItems(m, section) == Items(m, section)

\* sorted((k, v) for k, v in mapper.items() if k.startswith("section."))
SortedItems(m, section) == SortSeq(Items(m, section), ItemLess)

\* trigger_info.path or f"/{use_case_key}"
RawPath(p) == IF p = <<>> THEN <<[kind |-> "lit"]>> ELSE p

RECURSIVE MapNames(_)
MapNames(segs) ==
    IF segs = <<>> THEN <<>> ELSE <<Head(segs).name>> \o MapNames(Tail(segs))

\* re.findall(r"{([a-zA-Z_][a-zA-Z0-9_]*)}", path or "")
ExtractPathParamNames(p) ==
    MapNames(SelectSeq(p, LAMBDA s : s.kind = "var"))

-----------------------------------------------------------------------------
(* The parameter declarations and bindings the f-strings build *)

Param(name, type, marker, arg, alias, tail) ==
    [name |-> name, type |-> type, marker |-> marker, arg |-> arg,
     alias |-> alias, tail |-> tail]

\* f"{src}: {type_str} = Path(...)"
PathParam(src, type_str) == Param(src, type_str, "Path", "...", None, FALSE)

PathBindingSwapped(dst, src) == <<src, dst>>

\* uc_arg_names.append((dst, src))
PathBinding(dst, src) == <<dst, src>>

BodyParamNamedBody(dst, type_str) == Param("body", type_str, "Body", "...", None, FALSE)

\* f"{dst}: {type_str} = Body(...)"
BodyParam(dst, type_str) == Param(dst, type_str, "Body", "...", None, FALSE)

\* f"{field}: {type_str} = Body(..., alias={field!r}),  "
BodyFieldParam(field, type_str) == Param(field, type_str, "Body", "...", field, TRUE)

\* f"{dst}: {type_str} = Depends(_all_query_params),  "
ParamsParam(dst, type_str) ==
    Param(dst, type_str, "Depends", "_all_query_params", None, TRUE)

\* f"{field}: {type_str} = Query(None, alias={field!r}),  "
ParamsFieldParam(field, type_str) == Param(field, type_str, "Query", "None", field, TRUE)

\* f"{dst}: {type_str} = Depends(_all_headers),  "
HeadersParam(dst, type_str) == Param(dst, type_str, "Depends", "_all_headers", None, TRUE)

\* f"{field}: {type_str} = Header(..., alias={field!r}),  "
HeadersFieldParam(field, type_str) == Param(field, type_str, "Header", "...", field, TRUE)

\* The three fixed fallback parameters.
FallbackBodyParam == Param("body", "Dict[str, Any]", "Body", "default={}", None, FALSE)
FallbackQueryParam ==
    Param("query_params", "Dict[str, Any]", "Depends", "_all_query_params", None, FALSE)
FallbackHeadersParam ==
    Param("headers", "Dict[str, str]", "Depends", "_all_headers", None, FALSE)

\* ann = get_param_type(callable_obj, name) or str, then its text and imports.
FieldType(c, name) ==
    TypeToStrAndImports(IF GetParamType(c, name) = None THEN "str"
                        ELSE GetParamType(c, name))

\* The aggregate branches: an open mapping type when nothing is declared.
AggregateType(c, dst, fallback_str, fallback_names) ==
    IF GetParamType(c, dst) = None
    THEN [str |-> fallback_str, imports |-> ("typing" :> fallback_names)]
    ELSE TypeToStrAndImports(GetParamType(c, dst))

-----------------------------------------------------------------------------
(* Init: the locals of __call__ before line 54, for every trigger in bounds *)

Init ==
    /\ mapper \in Mappers
    /\ path \in SeqsUpTo(Segments, MaxFields)
    /\ Len(mapper) + Len(path) <= MaxFields
    /\ is_coroutine \in BOOLEAN
    /\ use_case_description \in {None, "desc"}
    /\ callable_obj \in Callables
    /\ imports = <<>>
    /\ sig_params = <<>>
    /\ uc_arg_names = <<>>
    /\ lines = <<>>
    /\ todo = <<>>
    /\ pc = "start"
    /\ request = None
    /\ kwargs = <<>>

Inputs == <<mapper, path, is_coroutine, use_case_description, callable_obj>>

-----------------------------------------------------------------------------
(* __call__, explicit-mapper mode (lines 54-161) *)

\* What every branch does with one declaration: merge the type's imports, add
\* the fastapi marker, append the parameter and its binding.
Emit(type, marker, param, binding) ==
    /\ imports' = AddNames(MergeImports(imports, type.imports), "fastapi", {marker})
    /\ sig_params' = Append(sig_params, param)
    /\ uc_arg_names' = Append(uc_arg_names, binding)

\* Lines 42-55 and the head of the first loop (or of the fallback loop).
Start ==
    /\ pc = "start"
    /\ IF mapper # <<>>
       THEN /\ imports' = AddNames(imports, "fastapi", {"Depends"})
            /\ todo' = SortedItems(mapper, "path_query")
            /\ pc' = "path_query"
       ELSE /\ imports' = imports
            /\ todo' = ExtractPathParamNames(RawPath(path))
            /\ pc' = "fallback_path"
    /\ UNCHANGED <<Inputs, sig_params, uc_arg_names, lines, request, kwargs>>

\* One iteration of the path_query loop (lines 56-68).
PathQueryEntry ==
    /\ pc = "path_query" /\ todo # <<>>
    /\ LET source_key == Head(todo)[1]
           dst == Head(todo)[2]
           src == FieldOf(source_key)
           type == FieldType(callable_obj, dst)
       IN  Emit(type, "Path", PathParam(src, type.str), PathBinding(dst, src))
    /\ todo' = Tail(todo)
    /\ UNCHANGED <<Inputs, lines, pc, request, kwargs>>

\* if "body" in mapper (lines 70-84), then the head of the body.<field> loop.
BodyAggregate ==
    /\ pc = "path_query" /\ todo = <<>>
    /\ IF HasKey(mapper, "body")
       THEN LET dst == Lookup(mapper, "body")
                type == AggregateType(callable_obj, dst, "Dict[str, Any]", {"Dict", "Any"})
            IN  Emit(type, "Body", BodyParam(dst, type.str), <<dst, dst>>)
       ELSE UNCHANGED <<imports, sig_params, uc_arg_names>>
    /\ todo' = SortedItems(mapper, "body")
    /\ pc' = "body_fields"
    /\ UNCHANGED <<Inputs, lines, request, kwargs>>

\* One iteration of the body.<field> loop (lines 86-99).
BodyFieldEntry ==
    /\ pc = "body_fields" /\ todo # <<>>
    /\ LET dst == Head(todo)[2]
           field == FieldOf(Head(todo)[1])
           type == FieldType(callable_obj, dst)
       IN  Emit(type, "Body", BodyFieldParam(field, type.str), <<dst, field>>)
    /\ todo' = Tail(todo)
    /\ UNCHANGED <<Inputs, lines, pc, request, kwargs>>

\* if "params" in mapper (lines 101-115), then the head of the params.<field> loop.
ParamsAggregate ==
    /\ pc = "body_fields" /\ todo = <<>>
    /\ IF HasKey(mapper, "params")
       THEN LET dst == Lookup(mapper, "params")
                type == AggregateType(callable_obj, dst, "Dict[str, Any]", {"Dict", "Any"})
            IN  Emit(type, "Depends", ParamsParam(dst, type.str), <<dst, dst>>)
       ELSE UNCHANGED <<imports, sig_params, uc_arg_names>>
    /\ todo' = SortedItems(mapper, "params")
    /\ pc' = "params_fields"
    /\ UNCHANGED <<Inputs, lines, request, kwargs>>

\* One iteration of the params.<field> loop (lines 117-130).
ParamsFieldEntry ==
    /\ pc = "params_fields" /\ todo # <<>>
    /\ LET dst == Head(todo)[2]
           field == FieldOf(Head(todo)[1])
           type == FieldType(callable_obj, dst)
       IN  Emit(type, "Query", ParamsFieldParam(field, type.str), <<dst, field>>)
    /\ todo' = Tail(todo)
    /\ UNCHANGED <<Inputs, lines, pc, request, kwargs>>

\* if "headers" in mapper (lines 132-146), then the head of the headers.<field> loop.
HeadersAggregate ==
    /\ pc = "params_fields" /\ todo = <<>>
    /\ IF HasKey(mapper, "headers")
       THEN LET dst == Lookup(mapper, "headers")
                type == AggregateType(callable_obj, dst, "Dict[str, str]", {"Dict"})
            IN  Emit(type, "Depends", HeadersParam(dst, type.str), <<dst, dst>>)
       ELSE UNCHANGED <<imports, sig_params, uc_arg_names>>
    /\ todo' = SortedItems(mapper, "headers")
    /\ pc' = "headers_fields"
    /\ UNCHANGED <<Inputs, lines, request, kwargs>>

\* One iteration of the headers.<field> loop (lines 148-161).
HeadersFieldEntry ==
    /\ pc = "headers_fields" /\ todo # <<>>
    /\ LET dst == Head(todo)[2]
           field == FieldOf(Head(todo)[1])
           type == FieldType(callable_obj, dst)
       IN  Emit(type, "Header", HeadersFieldParam(field, type.str), <<dst, field>>)
    /\ todo' = Tail(todo)
    /\ UNCHANGED <<Inputs, lines, pc, request, kwargs>>

-----------------------------------------------------------------------------
(* __call__, fallback mode (lines 163-181) *)

\* One iteration of the path parameter loop (lines 165-171).
FallbackPathParam ==
    /\ pc = "fallback_path" /\ todo # <<>>
    /\ LET p_name == Head(todo)
           type == FieldType(callable_obj, p_name)
       IN  /\ imports' = AddNames(MergeImports(imports, type.imports), "fastapi", {"Path"})
           /\ sig_params' = Append(sig_params, PathParam(p_name, type.str))
    /\ todo' = Tail(todo)
    /\ UNCHANGED <<Inputs, uc_arg_names, lines, pc, request, kwargs>>

\* The three fixed parameters (lines 172-181).
FallbackFixedParams ==
    /\ pc = "fallback_path" /\ todo = <<>>
    /\ imports' = AddNames(AddNames(AddNames(imports, "fastapi", {"Body"}),
                                    "typing", {"Dict", "Any"}),
                           "fastapi", {"Depends"})
    /\ sig_params' = sig_params \o
                        <<FallbackBodyParam, FallbackQueryParam, FallbackHeadersParam>>
    /\ pc' = "emit"
    /\ UNCHANGED <<Inputs, uc_arg_names, lines, todo, request, kwargs>>

\* Leaving the explicit branch: the last loop is exhausted.
MapperDone ==
    /\ pc = "headers_fields" /\ todo = <<>>
    /\ pc' = "emit"
    /\ UNCHANGED <<Inputs, imports, sig_params, uc_arg_names, lines, todo, request, kwargs>>

-----------------------------------------------------------------------------
(* __call__, emission of the handler text (lines 183-231) *)

Comma == [tok |-> ","]

\* The tokens of one parameter string: the declaration, and the comma of a
\* trailing ",  " when the f-string carries one (blanks are not tokens).
Tokens(p) ==
    LET decl == [tok |-> "param", name |-> p.name, type |-> p.type,
                 marker |-> p.marker, arg |-> p.arg, alias |-> p.alias]
    IN  IF p.tail THEN <<decl, Comma>> ELSE <<decl>>

\* ', '.join(sig_params)
RECURSIVE Join(_)
Join(params) ==
    IF params = <<>> THEN <<>>
    ELSE IF Len(params) = 1 THEN Tokens(params[1])
    ELSE Tokens(Head(params)) \o <<Comma>> \o Join(Tail(params))

\* def_or_async (lines 193-196)
DefOrAsync(coroutine) == IF coroutine THEN "async def" ELSE "def"

\* f"{def_or_async} {handler_name}({', '.join(sig_params)}){return_string}:"
DefLine(coroutine, params, return_type_str) ==
    [kind |-> "def", keyword |-> DefOrAsync(coroutine), params |-> Join(params),
     returns |-> return_type_str]

AssignLineDstOnly(dst, field) == [kind |-> "assign", dst |-> dst, local |-> dst]

\* f'    _kwargs["{dst}"] = {field}'
AssignLine(dst, field) == [kind |-> "assign", dst |-> dst, local |-> field]

RECURSIVE BindingLines(_)
\* for dst, field in uc_arg_names: lines.append(...)
BindingLines(pairs) ==
    IF pairs = <<>> THEN <<>>
    ELSE <<AssignLine(Head(pairs)[1], Head(pairs)[2])>> \o BindingLines(Tail(pairs))

RECURSIVE PathLines(_)
\* for p_name in path_param_names: lines.append(...)
PathLines(names) ==
    IF names = <<>> THEN <<>>
    ELSE <<AssignLine(Head(names), Head(names))>> \o PathLines(Tail(names))

UpdateLine(src, indent) == [kind |-> "update", src |-> src, indent |-> indent]

MergeLinesHeadersFirst ==
    << [kind |-> "if_isinstance_dict", var |-> "body"],
       UpdateLine("body", 2),
       UpdateLine("headers", 1),
       UpdateLine("query_params", 1) >>

\* The four fixed lines of the fallback body (lines 218-221).
MergeLines ==
    << [kind |-> "if_isinstance_dict", var |-> "body"],
       UpdateLine("body", 2),
       UpdateLine("query_params", 1),
       UpdateLine("headers", 1) >>

CallLineNeverAwaits(coroutine) == [kind |-> "call", await |-> FALSE]

\* f"    result = await {uc_var_name}(**_kwargs)" or without await (lines 223-226)
CallLine(coroutine) == [kind |-> "call", await |-> coroutine]

\* Lines 183-209: decorator, return annotation, def line, docstring, collector.
EmitDefinition ==
    /\ pc = "emit"
    /\ LET ret_ann == InferResponseModel(callable_obj)
           ret == IF ret_ann = None THEN [str |-> None, imports |-> <<>>]
                  ELSE TypeToStrAndImports(ret_ann)
       IN  /\ imports' = MergeImports(imports, ret.imports)
           /\ lines' = << [kind |-> "decorator", path |-> RawPath(path),
                           description |-> use_case_description],
                          DefLine(is_coroutine, sig_params, ret.str) >>
                       \o (IF use_case_description # None
                           THEN <<[kind |-> "docstring", text |-> use_case_description]>>
                           ELSE <<>>)
                       \o <<[kind |-> "init"]>>
    /\ pc' = "kwargs"
    /\ UNCHANGED <<Inputs, sig_params, uc_arg_names, todo, request, kwargs>>

\* Lines 211-221: the statements that fill the collector.
EmitKwargs ==
    /\ pc = "kwargs"
    /\ lines' = lines \o
                (IF mapper # <<>>
                 THEN BindingLines(uc_arg_names)
                 ELSE PathLines(ExtractPathParamNames(RawPath(path))) \o MergeLines)
    /\ pc' = "call"
    /\ UNCHANGED <<Inputs, imports, sig_params, uc_arg_names, todo, request, kwargs>>

\* Lines 223-231: the call, the return, the closing blank line; __call__ returns.
EmitCall ==
    /\ pc = "call"
    /\ lines' = lines \o <<CallLine(is_coroutine), [kind |-> "return"], [kind |-> "blank"]>>
    /\ pc' = "done"
    /\ UNCHANGED <<Inputs, imports, sig_params, uc_arg_names, todo, request, kwargs>>

-----------------------------------------------------------------------------
(* The generated handler, once loaded, serving a request *)

RequestKeys == {"a", "b"}

Dict(source, keys) == [is_dict |-> TRUE, items |-> [k \in keys |-> <<source, k>>]]

NotADict == [is_dict |-> FALSE, items |-> <<>>]

Requests ==
    {[body |-> b, query_params |-> Dict("query", q), headers |-> Dict("headers", h)] :
        b \in {NotADict} \cup {Dict("body", k) : k \in SUBSET RequestKeys},
        q \in SUBSET RequestKeys, h \in SUBSET RequestKeys}

TheDefLine == lines[2]

DeclaredNames(tokens) ==
    {tokens[i].name : i \in {j \in 1..Len(tokens) : tokens[j].tok = "param"}}

\* Python accepts the def line: no empty slot between two commas, no
\* argument name declared twice.
Loadable(tokens) ==
    /\ \A i \in 1..Len(tokens) - 1 : ~(tokens[i].tok = "," /\ tokens[i + 1].tok = ",")
    /\ \A i, j \in 1..Len(tokens) :
          (i # j /\ tokens[i].tok = "param" /\ tokens[j].tok = "param")
              => tokens[i].name # tokens[j].name

\* _kwargs[k] = v
Put(kw, k, v) == [x \in DOMAIN kw \cup {k} |-> IF x = k THEN v ELSE kw[x]]

\* _kwargs.update(d)
Update(kw, d) == [x \in DOMAIN kw \cup DOMAIN d |-> IF x \in DOMAIN d THEN d[x] ELSE kw[x]]

RECURSIVE Exec(_, _, _, _)
\* The statements of the body in order; `taken` is the outcome of the last if.
Exec(stmts, locals, kw, taken) ==
    IF stmts = <<>> THEN kw
    ELSE LET s == Head(stmts)
             rest == Tail(stmts)
         IN  CASE s.kind = "init" -> Exec(rest, locals, <<>>, taken)
               [] s.kind = "assign" ->
                    Exec(rest, locals, Put(kw, s.dst, locals[s.local]), taken)
               [] s.kind = "if_isinstance_dict" ->
                    Exec(rest, locals, kw, locals[s.var].is_dict)
               [] s.kind = "update" ->
                    Exec(rest, locals,
                         IF s.indent = 2 /\ ~taken THEN kw
                         ELSE Update(kw, locals[s.src].items),
                         taken)
               [] OTHER -> Exec(rest, locals, kw, taken)

\* Fallback handler: FastAPI passes the path values, the body and the two dependencies.
HandleFallbackRequest ==
    /\ pc = "done" /\ mapper = <<>>
    /\ Loadable(TheDefLine.params)
    /\ \E req \in Requests :
          LET names == DeclaredNames(TheDefLine.params)
              locals == [n \in names |->
                            CASE n = "body" -> req.body
                              [] n = "query_params" -> req.query_params
                              [] n = "headers" -> req.headers
                              [] OTHER -> <<"path", n>>]
          IN  /\ request' = req
              /\ kwargs' = Exec(lines, locals, <<>>, FALSE)
    /\ pc' = "returned"
    /\ UNCHANGED <<Inputs, imports, sig_params, uc_arg_names, lines, todo>>

\* Mapped handler: FastAPI resolves every declared parameter to some value.
HandleMappedRequest ==
    /\ pc = "done" /\ mapper # <<>>
    /\ Loadable(TheDefLine.params)
    /\ LET locals == [n \in DeclaredNames(TheDefLine.params) |-> <<"arg", n>>]
       IN  kwargs' = Exec(lines, locals, <<>>, FALSE)
    /\ request' = "resolved"
    /\ pc' = "returned"
    /\ UNCHANGED <<Inputs, imports, sig_params, uc_arg_names, lines, todo>>

-----------------------------------------------------------------------------

Next ==
    \/ Start
    \/ PathQueryEntry
    \/ BodyAggregate
    \/ BodyFieldEntry
    \/ ParamsAggregate
    \/ ParamsFieldEntry
    \/ HeadersAggregate
    \/ HeadersFieldEntry
    \/ MapperDone
    \/ FallbackPathParam
    \/ FallbackFixedParams
    \/ EmitDefinition
    \/ EmitKwargs
    \/ EmitCall
    \/ HandleFallbackRequest
    \/ HandleMappedRequest

Spec == Init /\ [][Next]_vars

-----------------------------------------------------------------------------
(* Vocabulary of the properties *)

Explicit == mapper # <<>>
Returned == pc \in {"done", "returned"}
MapperSet == {mapper[i] : i \in 1..Len(mapper)}
MapperKeys == {e[1] : e \in MapperSet}
ParamNames == {sig_params[i].name : i \in 1..Len(sig_params)}
PathNames == ExtractPathParamNames(RawPath(path))

LinesOfKind(kinds) == SelectSeq(lines, LAMBDA l : l.kind \in kinds)

\* The set of (module, symbol) pairs of an import map.
Symbols(imp) == UNION {{<<m, x>> : x \in imp[m]} : m \in DOMAIN imp}

\* The mapper key a declaration was emitted for, read off its text.
SourceKeyOf(p) ==
    CASE p.marker = "Path" -> <<"path_query", p.name>>
      [] p.marker = "Body" /\ p.alias = None -> <<"body">>
      [] p.marker = "Body" /\ p.alias # None -> <<"body", p.alias>>
      [] p.marker = "Depends" /\ p.arg = "_all_query_params" -> <<"params">>
      [] p.marker = "Query" -> <<"params", p.alias>>
      [] p.marker = "Depends" /\ p.arg = "_all_headers" -> <<"headers">>
      [] p.marker = "Header" -> <<"headers", p.alias>>

\* path_query.<name>, body, body.<field>, params, params.<field>, headers, headers.<field>
CategoryRank(k) ==
    CASE k[1] = "path_query" -> 1
      [] k = <<"body">> -> 2
      [] k[1] = "body" -> 3
      [] k = <<"params">> -> 4
      [] k[1] = "params" -> 5
      [] k = <<"headers">> -> 6
      [] OTHER -> 7

\* Category first, then the source key's string order.
EmittedBefore(k1, k2) ==
    \/ CategoryRank(k1) < CategoryRank(k2)
    \/ CategoryRank(k1) = CategoryRank(k2) /\ Len(k1) = 2 /\ StrLess(k1[2], k2[2])

ValueOf(k) == (CHOOSE e \in MapperSet : e[1] = k)[2]

\* What one mapper entry contributes to the import map: its type's imports
\* and the fastapi / typing names of its declaration.
EntryContribution(e) ==
    LET k == e[1]
        dst == e[2]
    IN  IF Len(k) = 2
        THEN Symbols(FieldType(callable_obj, dst).imports) \cup
             {<<"fastapi", CASE k[1] = "path_query" -> "Path"
                             [] k[1] = "body" -> "Body"
                             [] k[1] = "params" -> "Query"
                             [] k[1] = "headers" -> "Header">>}
        ELSE Symbols(AggregateType(callable_obj, dst,
                                   IF k[1] = "headers" THEN "Dict[str, str]"
                                   ELSE "Dict[str, Any]",
                                   IF k[1] = "headers" THEN {"Dict"}
                                   ELSE {"Dict", "Any"}).imports) \cup
             {<<"fastapi", IF k[1] = "body" THEN "Body" ELSE "Depends">>}

FallbackContribution ==
    UNION {Symbols(FieldType(callable_obj, PathNames[i]).imports) \cup {<<"fastapi", "Path">>} :
              i \in 1..Len(PathNames)}
    \cup {<<"fastapi", "Body">>, <<"fastapi", "Depends">>,
          <<"typing", "Dict">>, <<"typing", "Any">>}

ReturnContribution ==
    IF InferResponseModel(callable_obj) = None THEN {}
    ELSE Symbols(TypeToStrAndImports(InferResponseModel(callable_obj)).imports)

Contributions ==
    (IF Explicit THEN UNION {EntryContribution(e) : e \in MapperSet}
     ELSE FallbackContribution) \cup ReturnContribution

-----------------------------------------------------------------------------
(* C1 *)

PathOnlyMapper == Explicit /\ \A e \in MapperSet : StartsWith(e[1], "path_query")

\* C1: for a non-empty mapper whose keys are all path_query.<name>, the
\* returned import map holds none of the fastapi symbols Body, Query, Header,
\* Depends.
C1_PathOnlyImports ==
    (Returned /\ PathOnlyMapper) =>
        \A sym \in {"Body", "Query", "Header", "Depends"} :
            <<"fastapi", sym>> \notin Symbols(imports)

-----------------------------------------------------------------------------
(* C2 *)

AggregateDeclared ==
    \E i \in 1..Len(sig_params) :
        sig_params[i].alias = None /\ sig_params[i].marker \in {"Body", "Depends"}

\* C2 as stated: in explicit mode every destination name of a binding pair is
\* a declared parameter of the signature (or may be a nested field of a
\* declared aggregate parameter).
C2_DestinationsDeclared ==
    (Returned /\ Explicit) =>
        \A i \in 1..Len(uc_arg_names) :
            uc_arg_names[i][1] \in ParamNames \/ AggregateDeclared

\* C2 as amended: in explicit mode every local name of a binding pair is a
\* declared parameter of the signature, so every assignment of the body
\* reads a name the def line declares.
C2_LocalsDeclared ==
    /\ \A i \in 1..Len(uc_arg_names) : uc_arg_names[i][2] \in ParamNames
    /\ (Returned /\ Explicit) =>
          \A i \in 1..Len(lines) :
              lines[i].kind = "assign" => lines[i].local \in DeclaredNames(TheDefLine.params)

C2_Witness ==
    /\ Returned
    /\ <<<<"path_query", "a">>, "b">> \in MapperSet
    /\ \E i \in 1..Len(lines) :
          lines[i] = [kind |-> "assign", dst |-> "b", local |-> "a"]
    /\ "b" \notin ParamNames

-----------------------------------------------------------------------------
(* C3 *)

Statements == LinesOfKind({"assign", "if_isinstance_dict", "update"})

\* The value the fixed order leaves for key k: the last source holding it.
LastSourceValue(k) ==
    IF k \in DOMAIN request.headers.items THEN <<"headers", k>>
    ELSE IF k \in DOMAIN request.query_params.items THEN <<"query", k>>
    ELSE IF request.body.is_dict /\ k \in DOMAIN request.body.items THEN <<"body", k>>
    ELSE <<"path", k>>

\* C3: in fallback mode the body assigns each path parameter by name, then
\* merges the body if it is a mapping, then the query parameters, then the
\* headers; after a call every key holds the value of the last source, in
\* that order, that has it.
C3_FallbackMergeOrder ==
    /\ (Returned /\ ~Explicit) =>
          LET n == Len(PathNames)
          IN  /\ Len(Statements) = n + 4
              /\ \A i \in 1..n :
                    Statements[i] =
                        [kind |-> "assign", dst |-> PathNames[i], local |-> PathNames[i]]
              /\ Statements[n + 1] = [kind |-> "if_isinstance_dict", var |-> "body"]
              /\ Statements[n + 2] = [kind |-> "update", src |-> "body", indent |-> 2]
              /\ Statements[n + 3] = [kind |-> "update", src |-> "query_params", indent |-> 1]
              /\ Statements[n + 4] = [kind |-> "update", src |-> "headers", indent |-> 1]
    /\ (pc = "returned" /\ ~Explicit) =>
          /\ DOMAIN kwargs =
                {PathNames[i] : i \in 1..Len(PathNames)}
                \cup (IF request.body.is_dict THEN DOMAIN request.body.items ELSE {})
                \cup DOMAIN request.query_params.items
                \cup DOMAIN request.headers.items
          /\ \A k \in DOMAIN kwargs : kwargs[k] = LastSourceValue(k)

C3_Witness ==
    /\ pc = "returned" /\ ~Explicit
    /\ PathNames = <<"a">>
    /\ request.body.is_dict /\ DOMAIN request.body.items = {"a", "b"}
    /\ DOMAIN request.query_params.items = {"a"}
    /\ DOMAIN request.headers.items = {"b"}
    /\ kwargs["a"] = <<"query", "a">>
    /\ kwargs["b"] = <<"headers", "b">>

-----------------------------------------------------------------------------
(* C4 *)

\* C4: in explicit mode parameters and binding pairs are emitted in category
\* order and, within a category, in ascending order of the source key; the
\* parameters, the pairs and the import map are determined by the mapper's
\* set of entries, whatever the order the mapper holds them in.
C4_CanonicalOrder ==
    (Returned /\ Explicit) =>
        /\ Len(sig_params) = Cardinality(MapperSet)
        /\ Len(uc_arg_names) = Len(sig_params)
        /\ {SourceKeyOf(sig_params[i]) : i \in 1..Len(sig_params)} = MapperKeys
        /\ \A i, j \in 1..Len(sig_params) :
              i < j => EmittedBefore(SourceKeyOf(sig_params[i]), SourceKeyOf(sig_params[j]))
        /\ \A i \in 1..Len(sig_params) :
              uc_arg_names[i][1] = ValueOf(SourceKeyOf(sig_params[i]))
        /\ Symbols(imports) = Contributions \cup {<<"fastapi", "Depends">>}

C4_Witness ==
    /\ Returned
    /\ Len(mapper) = 2
    /\ mapper[1][1] = <<"params", "b">>
    /\ mapper[2][1] = <<"params", "a">>
    /\ sig_params[1].name = "a"
    /\ sig_params[2].name = "b"

-----------------------------------------------------------------------------
(* C5 *)

\* C5: the handler is declared async def and awaits the use case exactly when
\* the use case is a coroutine; otherwise it is a plain def calling directly.
C5_AsyncAgreement ==
    Returned =>
        /\ Len(LinesOfKind({"def"})) = 1
        /\ Len(LinesOfKind({"call"})) = 1
        /\ (LinesOfKind({"def"})[1].keyword = "async def") <=> is_coroutine
        /\ (LinesOfKind({"def"})[1].keyword = "def") <=> ~is_coroutine
        /\ LinesOfKind({"call"})[1].await <=> is_coroutine

C5_Witness ==
    /\ Returned
    /\ is_coroutine
    /\ TheDefLine.keyword = "async def"
    /\ \E i \in 1..Len(lines) : lines[i] = [kind |-> "call", await |-> TRUE]

-----------------------------------------------------------------------------
(* C6 *)

BodyBound == {i \in 1..Len(sig_params) : sig_params[i].marker = "Body"}

\* C6: a mapper with bare body -> d and no body.<field> key yields exactly one
\* body-bound parameter, the aggregate named d without alias, bound as (d, d).
C6_SingleAggregateBody ==
    (Returned /\ HasKey(mapper, "body") /\ ~\E k \in MapperKeys : StartsWith(k, "body")) =>
        LET d == Lookup(mapper, "body")
        IN  /\ Cardinality(BodyBound) = 1
            /\ \A i \in BodyBound :
                  /\ sig_params[i].name = d
                  /\ sig_params[i].alias = None
                  /\ uc_arg_names[i] = <<d, d>>
            /\ Cardinality({i \in 1..Len(TheDefLine.params) :
                              /\ TheDefLine.params[i].tok = "param"
                              /\ TheDefLine.params[i].marker = "Body"}) = 1

C6_Witness ==
    /\ Returned
    /\ MapperSet = {<<<<"body">>, "a">>, <<<<"path_query", "b">>, "b">>}
    /\ sig_params[2].name = "a"
    /\ sig_params[2].marker = "Body"

-----------------------------------------------------------------------------
(* C7 *)

\* C7: in explicit mode the i-th pair (dst, local) belongs to the entry of the
\* i-th parameter: local is that parameter's name (the field of a dotted key,
\* the destination of a bare key), dst the entry's destination; the body holds
\* one assignment _kwargs[dst] = local per pair, in pair order, and no other
\* statement that fills the collector.
C7_BindingsMatchDeclarations ==
    (Returned /\ Explicit) =>
        /\ Len(uc_arg_names) = Len(sig_params)
        /\ \A i \in 1..Len(uc_arg_names) :
              LET k == SourceKeyOf(sig_params[i])
              IN  /\ k \in MapperKeys
                  /\ uc_arg_names[i][1] = ValueOf(k)
                  /\ uc_arg_names[i][2] = sig_params[i].name
                  /\ uc_arg_names[i][2] = IF Len(k) = 2 THEN k[2] ELSE ValueOf(k)
        /\ Len(Statements) = Len(uc_arg_names)
        /\ \A i \in 1..Len(Statements) :
              Statements[i] = [kind |-> "assign", dst |-> uc_arg_names[i][1],
                               local |-> uc_arg_names[i][2]]

C7_Witness ==
    /\ Returned
    /\ MapperSet = {<<<<"path_query", "a">>, "b">>, <<<<"path_query", "b">>, "b">>}
    /\ uc_arg_names = << <<"b", "a">>, <<"b", "b">> >>
    /\ Statements = << [kind |-> "assign", dst |-> "b", local |-> "a"],
                       [kind |-> "assign", dst |-> "b", local |-> "b"] >>

-----------------------------------------------------------------------------
(* C8 *)

\* C8: the returned import map is exactly the union of what the processed
\* fields (their types and their fastapi / typing names) and the inferred
\* return type contribute.
C8_ImportsAreTheContributions ==
    Returned => Symbols(imports) = Contributions

\* The monotone half of C8: no step of a compilation removes a module or a
\* symbol from the import map.
ImportsOnlyGrow ==
    [][/\ DOMAIN imports \subseteq DOMAIN imports'
       /\ \A m \in DOMAIN imports : imports[m] \subseteq imports'[m]]_vars

-----------------------------------------------------------------------------
(* C9 *)

\* C9: inside the parentheses of the def line no two commas follow each other
\* with nothing between them.
C9_NoEmptySlot ==
    Returned =>
        \A i \in 1..Len(TheDefLine.params) - 1 :
            ~(TheDefLine.params[i].tok = "," /\ TheDefLine.params[i + 1].tok = ",")

-----------------------------------------------------------------------------
(* C10 *)

DistinctDestinations ==
    \A i, j \in 1..Len(mapper) : i # j => mapper[i][2] # mapper[j][2]

NoBareWithDotted ==
    \A s \in AggregateSections :
        ~(HasKey(mapper, s) /\ \E k \in MapperKeys : StartsWith(k, s))

DistinctPlaceholders ==
    \A i, j \in 1..Len(PathNames) : i # j => PathNames[i] # PathNames[j]

\* C10: the parameter names of one signature are pairwise distinct whenever
\* the mapper has distinct destinations and no category holds both its bare
\* and a dotted key (explicit mode), or the path's placeholders are distinct
\* (fallback mode).
C10_DistinctParameterNames ==
    (/\ Returned
     /\ IF Explicit THEN DistinctDestinations /\ NoBareWithDotted
        ELSE DistinctPlaceholders) =>
        \A i, j \in 1..Len(sig_params) : i # j => sig_params[i].name # sig_params[j].name
====
